---- MODULE Spec2Model ----
(***************************************************************************)
(* The append-only activity ledger of the ODAN backend                     *)
(* (modules/blockchain/blockchain.service.ts): the in-memory chain and     *)
(* hash index, the chain.json / index.json files, the relational mirror,   *)
(* and the operations initBlockchain, addRecord and the read-side queries. *)
(*                                                                         *)
(* Strings are modelled as sequences of naturals.  A SHA-256 hex digest is *)
(* modelled as its first hex digit (a mix of the hashed text) followed by  *)
(* the hashed text itself, so that two digests are equal exactly when the  *)
(* hashed texts are equal (collision resistance) and "hash.startsWith('0')"*)
(* is a deterministic function of the hashed text.                         *)
(***************************************************************************)
EXTENDS Integers, Sequences, FiniteSets, TLC

\* ---------------------------------------------------------------- bounds
MaxCalls == 2   \* addRecord invocations over the whole run
MaxBoots == 2   \* process starts (initBlockchain executions)
MaxClock == 1   \* largest value of the wall clock (ms)

CallIds == 1..MaxCalls

MaxResolves == 2   \* POST /:id/resolve requests for the ticket
MaxSeconds == 7200 \* largest timeSpent of the response row (seconds)

Resolvers == 1..MaxResolves

\* ------------------------------------------------------------ data model
\* Property names of BlockData, in the order of the interface.
Key ==
  [type |-> 1, userId |-> 2, ticketId |-> 3, responseId |-> 4,
   certificateId |-> 5, timeSpent |-> 6, metadata |-> 7, volunteerId |-> 8]

\* Values of BlockData.type: 'GENESIS' and the BlockchainRecordType enum.
BlockchainRecordType ==
  [GENESIS |-> 0, TICKET_CREATED |-> 1, TICKET_RESOLVED |-> 2,
   RESPONSE_SUBMITTED |-> 3, TIME_LOGGED |-> 4, CERTIFICATE_ISSUED |-> 5]

\* prevHash of the genesis block: the string '0'.
Sentinel == <<0>>

\* Number of values of one hex digit of the digest.
HexBase == 16

\* new Date(): a Date object holding the clock's milliseconds.
Date(t) == [kind |-> "Date", ms |-> t]

\* A timestamp as JSON.parse returns it: the ISO string of the same instant.
IsoString(t) == [kind |-> "string", ms |-> t]

\* The calls the route handlers make: addRecord(type, data), with data an
\* object literal whose properties are listed in the order the caller
\* writes them.  Identifiers are small naturals; a null volunteerId is 0.
Requests ==
  { [type |-> BlockchainRecordType.TICKET_RESOLVED,
     data |-> << <<Key.ticketId, 1>>, <<Key.volunteerId, 2>>, <<Key.timeSpent, 3600>> >>],
    [type |-> BlockchainRecordType.TIME_LOGGED,
     data |-> << <<Key.responseId, 1>>, <<Key.userId, 2>>, <<Key.timeSpent, 1800>> >>] }

\* ------------------------------------------------------ hashing primitive
RECURSIVE Flatten(_)
\* The properties of an object in insertion order, as JSON.stringify
\* writes them: key, value, key, value, ...
Flatten(pairs) ==
  IF pairs = <<>> THEN <<>>
  ELSE <<pairs[1][1], pairs[1][2]>> \o Flatten(Tail(pairs))

\* JSON.stringify({index, timestamp, data, prevHash, nonce}).  A Date is
\* written by its toJSON() as the ISO string, a string timestamp as itself;
\* both give the same text for the same instant.
Stringify(block) ==
  <<block.index, block.timestamp.ms, Len(block.data)>> \o Flatten(block.data)
    \o <<Len(block.prevHash)>> \o block.prevHash \o <<block.nonce>>

RECURSIVE SumSeq(_)
SumSeq(s) == IF s = <<>> THEN 0 ELSE s[1] + SumSeq(Tail(s))

\* createHash('sha256').update(text).digest('hex')
Sha256Hex(text) == <<SumSeq(text) % HexBase>> \o text

calculateHash(block) == Sha256Hex(Stringify(block))

\* hash.startsWith('0')
StartsWithZero(hash) == hash[1] = 0

\* {...block, hash}
WithHash(block, hash) ==
  [index |-> block.index, timestamp |-> block.timestamp, data |-> block.data,
   prevHash |-> block.prevHash, nonce |-> block.nonce, hash |-> hash]

\* createGenesisBlock with an empty prevHash.
createGenesisBlock_EmptyPrev(t) ==
  LET genesisData == << <<Key.type, BlockchainRecordType.GENESIS>>, <<Key.metadata, t>> >>
      block == [index |-> 0, timestamp |-> Date(t), data |-> genesisData,
                prevHash |-> <<>>, nonce |-> 0]
  IN  WithHash(block, calculateHash(block))

\* createGenesisBlock(): index 0, prevHash '0', nonce 0, data of type
\* 'GENESIS' whose metadata holds the creation time.
createGenesisBlock(t) ==
  LET genesisData == << <<Key.type, BlockchainRecordType.GENESIS>>, <<Key.metadata, t>> >>
      block == [index |-> 0, timestamp |-> Date(t), data |-> genesisData,
                prevHash |-> Sentinel, nonce |-> 0]
  IN  WithHash(block, calculateHash(block))

\* -------------------------------------------------------------- hash index
EmptyMap == [h \in {} |-> 0]

\* Map.prototype.set
MapSet(map, k, v) == [h \in (DOMAIN map) \cup {k} |-> IF h = k THEN v ELSE map[h]]

RECURSIVE IndexOf(_, _)
\* chain.forEach((block, idx) => chainIndex.set(block.hash, idx)) on a
\* cleared map; n is the number of blocks visited.
IndexOf(blocks, n) ==
  IF n = 0 THEN EmptyMap
  ELSE MapSet(IndexOf(blocks, n - 1), blocks[n].hash, n - 1)

\* ------------------------------------------------------------ persistence
Absent == [state |-> "absent", blocks |-> <<>>]
Partial == [state |-> "partial", blocks |-> <<>>]
NoIndexFile == [state |-> "absent", map |-> EmptyMap]
PartialIndexFile == [state |-> "partial", map |-> EmptyMap]

\* A block as JSON.stringify writes it and JSON.parse reads it back.
ToJSON(block) == [block EXCEPT !.timestamp = IsoString(@.ms)]

\* JSON.stringify(chain, null, 2) written completely.
Written(blocks) ==
  [state |-> "ok", blocks |-> [i \in 1..Len(blocks) |-> ToJSON(blocks[i])]]

WrittenIndex(map) == [state |-> "ok", map |-> map]

\* What one call of saveChain can do.  "ok": both files written.
\* "open_failed": the first writeFileSync throws before the file is
\* truncated.  "chain_write_failed": it throws after truncation, part of
\* the text written.  "index_write_failed": chain.json is complete and the
\* second writeFileSync throws after truncating index.json.
SaveOutcomes == {"ok", "open_failed", "chain_write_failed", "index_write_failed"}

SaveThrows(o) == o # "ok"

SavedChainFile(o, old, blocks) ==
  CASE o = "ok" -> Written(blocks)
    [] o = "open_failed" -> old
    [] o = "chain_write_failed" -> Partial
    [] o = "index_write_failed" -> Written(blocks)

\* History: the in-memory chain whose text chain.json holds after a
\* saveChain; none once the file is truncated.
SavedChainAfter(o, old, blocks) ==
  CASE o = "ok" -> blocks
    [] o = "open_failed" -> old
    [] o = "chain_write_failed" -> <<>>
    [] o = "index_write_failed" -> blocks

SavedIndexFile(o, old, map) ==
  CASE o = "ok" -> WrittenIndex(map)
    [] o = "open_failed" -> old
    [] o = "chain_write_failed" -> old
    [] o = "index_write_failed" -> PartialIndexFile

\* Where a crash of the process can interrupt saveChain: after chain.json
\* was truncated, after it was written and before index.json is touched,
\* after index.json was truncated.
CrashPoints == {"chain_truncated", "chain_written", "index_truncated"}

CrashedChainFile(p, blocks) ==
  IF p = "chain_truncated" THEN Partial ELSE Written(blocks)

CrashedIndexFile(p, old) ==
  IF p = "index_truncated" THEN PartialIndexFile ELSE old

\* ------------------------------------------------------------- validation
\* validateChain comparing the links only.
validateChain_LinksOnly(blocks) ==
  \A i \in 2..Len(blocks) : blocks[i].prevHash = blocks[i - 1].hash

validateChain(blocks) ==
  \A i \in 2..Len(blocks) :
    /\ blocks[i].hash = calculateHash(blocks[i])
    /\ blocks[i].prevHash = blocks[i - 1].hash

\* ---------------------------------------------------------------- mirror
\* One row of the blockchainRecord table.
Row(block) == [index |-> block.index, hash |-> block.hash]

\* prisma.blockchainRecord.create(...).catch(() => {}): the table is keyed
\* by index, a second row with the same index is refused and the error
\* swallowed; ok = FALSE is any other failure of the insert, also swallowed.
MirrorCreate(rows, block, ok) ==
  IF ok /\ ~(\E r \in rows : r.index = block.index)
    THEN rows \cup {Row(block)}
    ELSE rows

RECURSIVE SyncFrom(_, _, _)
\* for (let i = from; i < chain.length; i++) create(chain[i])
SyncFrom(rows, blocks, from) ==
  IF from >= Len(blocks) THEN rows
  ELSE SyncFrom(MirrorCreate(rows, blocks[from + 1], TRUE), blocks, from + 1)

\* dbUp = FALSE: findFirst throws, the error is logged and nothing is synced.
syncWithDatabase(rows, blocks, dbUp) ==
  IF ~dbUp THEN rows
  ELSE LET lastSyncedIndex ==
             IF rows = {} THEN -1
             ELSE CHOOSE n \in {r.index : r \in rows} :
                    \A r \in rows : r.index <= n
       IN  SyncFrom(rows, blocks, lastSyncedIndex + 1)

\* ---------------------------------------------------------------- queries
\* The value of a property that an object does not have.
Undefined == -1

\* block.data.<key>: the value of the property, undefined when absent.
Prop(data, key) ==
  IF \E j \in DOMAIN data : data[j][1] = key
    THEN data[CHOOSE j \in DOMAIN data : data[j][1] = key][2]
    ELSE Undefined

\* getRecordsForUser keeping only the blocks that name the user as
\* volunteer.
getRecordsForUser_VolunteerOnly(blocks, userId) ==
  SelectSeq(blocks, LAMBDA block : Prop(block.data, Key.volunteerId) = userId)

\* chain.filter(block => data.userId === userId || data.volunteerId === userId)
getRecordsForUser(blocks, userId) ==
  SelectSeq(blocks, LAMBDA block :
    \/ Prop(block.data, Key.userId) = userId
    \/ Prop(block.data, Key.volunteerId) = userId)

\* block.data.timeSpent || 0
TimeSpentOrZero(block) ==
  IF Prop(block.data, Key.timeSpent) = Undefined THEN 0
  ELSE Prop(block.data, Key.timeSpent)

RECURSIVE Reduce(_, _)
\* Reduce keeping the time of the last block instead of the running total.
Reduce_LastOnly(blocks, total) ==
  IF blocks = <<>> THEN total ELSE TimeSpentOrZero(blocks[Len(blocks)])

\* blocks.reduce((total, block) => total + (block.data.timeSpent || 0), total)
Reduce(blocks, total) ==
  IF blocks = <<>> THEN total
  ELSE Reduce(Tail(blocks), total + TimeSpentOrZero(blocks[1]))

\* calculateUserTime adding up the time of every block that names the user.
calculateUserTime_AllRecords(blocks, userId) ==
  Reduce(getRecordsForUser(blocks, userId), 0)

\* chain.filter(type is RESPONSE_SUBMITTED or TIME_LOGGED, and
\* data.userId === userId).reduce(...)
calculateUserTime(blocks, userId) ==
  Reduce(SelectSeq(blocks, LAMBDA block :
           /\ \/ Prop(block.data, Key.type) = BlockchainRecordType.RESPONSE_SUBMITTED
              \/ Prop(block.data, Key.type) = BlockchainRecordType.TIME_LOGGED
           /\ Prop(block.data, Key.userId) = userId),
         0)

\* Seconds in one hour: the divisor of Math.floor(actualSeconds / 3600).
SecondsPerHour == 3600

\* verifyUserStats accepting only claims equal to the ledger's figures.
verifyUserStats_Exact(blocks, userId, claimedHours, claimedTickets) ==
  LET actualSeconds == calculateUserTime(blocks, userId)
      actualHours == actualSeconds \div SecondsPerHour
      actualTickets ==
        Len(SelectSeq(blocks, LAMBDA block :
              /\ Prop(block.data, Key.type) = BlockchainRecordType.TICKET_RESOLVED
              /\ Prop(block.data, Key.volunteerId) = userId))
  IN  [valid |-> actualHours = claimedHours /\ actualTickets = claimedTickets,
       actualHours |-> actualHours,
       actualTickets |-> actualTickets]

\* verifyUserStats(userId, claimedHours, claimedTickets) on the chain blocks.
verifyUserStats(blocks, userId, claimedHours, claimedTickets) ==
  LET actualSeconds == calculateUserTime(blocks, userId)
      actualHours == actualSeconds \div SecondsPerHour
      actualTickets ==
        Len(SelectSeq(blocks, LAMBDA block :
              /\ Prop(block.data, Key.type) = BlockchainRecordType.TICKET_RESOLVED
              /\ Prop(block.data, Key.volunteerId) = userId))
  IN  [valid |-> actualHours >= claimedHours /\ actualTickets >= claimedTickets,
       actualHours |-> actualHours,
       actualTickets |-> actualTickets]

\* getChainLength()
getChainLength(blocks) == Len(blocks)

\* getLatestBlock(): chain[chain.length - 1], undefined on an empty array.
getLatestBlock(blocks) ==
  IF blocks = <<>> THEN Undefined ELSE blocks[Len(blocks)]

\* ------------------------------------------------------------------ state
VARIABLES
  phase,          \* "down": no process; "up": initBlockchain has resolved
  boots,          \* number of process starts so far
  now,            \* the wall clock when it was last read
  chain,          \* let chain: Block[]
  chainIndex,     \* const chainIndex: Map<string, number>
  chainFile,      \* chain.json
  indexFile,      \* index.json
  mirror,         \* rows of the blockchainRecord table
  thread,         \* the addRecord call running on the event loop, 0 if none
  calls,          \* the addRecord invocations of this process
  loadKind,       \* branch loadChain took (its log line)
  chainValid,     \* what validateChain() returned inside initBlockchain
  loadedChain,    \* history: chain as loadChain left it
  savedChain,     \* history: the in-memory chain that chain.json was written from
  persistedAtLoad,\* history: savedChain when the process started
  crashWrite,     \* history: the save a crash interrupted
  tampered,       \* history: chain.json was edited by hand while down
  answer,         \* the last answer of verifyUserStats in this process
  db,             \* the relational tables the route handlers use
  reqs            \* the POST /:id/resolve requests in flight

vars ==
  <<phase, boots, now, chain, chainIndex, chainFile, indexFile, mirror, thread,
    calls, loadKind, chainValid, loadedChain, savedChain, persistedAtLoad,
    crashWrite, tampered, answer, db, reqs>>

\* The values new Date() can return now: the clock never runs backwards.
Clock == now..MaxClock

NoBlock ==
  [index |-> 0, timestamp |-> Date(0), data |-> <<>>, prevHash |-> <<>>,
   nonce |-> 0, hash |-> <<>>]

\* What a caller reads through getChainLength, getLatestBlock and
\* getBlockByHash.
Snapshot(blocks, map) ==
  [len |-> Len(blocks),
   latest |-> IF blocks = <<>> THEN <<>> ELSE blocks[Len(blocks)].hash,
   index |-> map]

NoSnapshot == Snapshot(<<>>, EmptyMap)

IdleCall ==
  [pc |-> "idle", block |-> NoBlock, pre |-> NoSnapshot, post |-> NoSnapshot,
   disk |-> Absent]

\* A call made to a process that has died since.
LostCall == [IdleCall EXCEPT !.pc = "lost"]

\* stage: "none", "crashed" (the process died inside saveChain and has not
\* started again), "restarted" (the first start after that death).
NoCrashWrite == [stage |-> "none", pre |-> Absent, post |-> Absent]

\* No verification has been asked of this process.
NoAnswer ==
  [given |-> FALSE, userId |-> 0, claimedHours |-> 0, claimedTickets |-> 0,
   len |-> 0, result |-> [valid |-> FALSE, actualHours |-> 0, actualTickets |-> 0]]

AfterStart(cw) ==
  IF cw.stage = "crashed" THEN [NoCrashWrite EXCEPT !.stage = "restarted"]
  ELSE NoCrashWrite

\* The rows the model follows: one ticket (created by user 1), one
\* response to it (written by user 2), the ticketsResolved counter of
\* user 2 and one certificate of user 2.  volunteerId 0 is null.
EmptyDb ==
  [ticket |-> [exists |-> FALSE, status |-> "OPEN", volunteerId |-> 0],
   response |-> [exists |-> FALSE, deleted |-> FALSE, timeSpent |-> 0],
   ticketsResolved |-> 0,
   certificate |-> [exists |-> FALSE, hoursSpent |-> 0, ticketsHelped |-> 0]]

\* A POST /:id/resolve request: what it read from the ticket row.
IdleReq == [pc |-> "idle", volunteerId |-> 0, totalTime |-> 0]

\* A request made to a process that has died since.
LostReq == [IdleReq EXCEPT !.pc = "lost"]

Init ==
  /\ phase = "down"
  /\ boots = 0
  /\ now = 0
  /\ chain = <<>>
  /\ chainIndex = EmptyMap
  /\ chainFile = Absent
  /\ indexFile = NoIndexFile
  /\ mirror = {}
  /\ thread = 0
  /\ calls = [c \in CallIds |-> IdleCall]
  /\ loadKind = "none"
  /\ chainValid = TRUE
  /\ loadedChain = <<>>
  /\ savedChain = <<>>
  /\ persistedAtLoad = <<>>
  /\ crashWrite = NoCrashWrite
  /\ tampered = FALSE
  /\ answer = NoAnswer
  /\ db = EmptyDb
  /\ reqs = [h \in Resolvers |-> IdleReq]

\* getBlockByHash(hash): chainIndex.get(hash), then chain[index];
\* undefined (NoBlock here) when the index has no such key or the array no
\* such position.
getBlockByHash(blocks, map, hash) ==
  IF hash \in DOMAIN map /\ map[hash] < Len(blocks)
    THEN blocks[map[hash] + 1]
    ELSE NoBlock

\* getBlockByIndex(index): chain[index]
getBlockByIndex(blocks, index) ==
  IF index \in 0..(Len(blocks) - 1) THEN blocks[index + 1] ELSE NoBlock

\* getRecordsForTicket(ticketId)
getRecordsForTicket(blocks, ticketId) ==
  SelectSeq(blocks, LAMBDA block : Prop(block.data, Key.ticketId) = ticketId)

\* --------------------------------------------------------- initBlockchain
\* The rest of initBlockchain once loadChain has returned: validateChain
\* (its result is only logged), syncWithDatabase, and the process is up.
\* No request is served before it resolves (server.ts awaits it first).
FinishInit(blocks, map, kind, dbUp) ==
  /\ chain' = blocks
  /\ chainIndex' = map
  /\ loadKind' = kind
  /\ chainValid' = validateChain(blocks)
  /\ mirror' = syncWithDatabase(mirror, blocks, dbUp)
  /\ phase' = "up"
  /\ boots' = boots + 1
  /\ loadedChain' = blocks
  /\ persistedAtLoad' = savedChain
  /\ crashWrite' = AfterStart(crashWrite)
  /\ UNCHANGED <<thread, calls, answer, db, reqs>>

\* The saveChain of the catch block throws: initBlockchain rejects and
\* main() exits the process.
RejectInit ==
  /\ chain' = <<>>
  /\ chainIndex' = EmptyMap
  /\ loadKind' = "none"
  /\ phase' = "down"
  /\ boots' = boots + 1
  /\ loadedChain' = <<>>
  /\ persistedAtLoad' = <<>>
  /\ crashWrite' = NoCrashWrite
  /\ UNCHANGED <<chainValid, mirror, thread, calls, answer, db, reqs>>

\* loadChain, chain.json exists and parses.
LoadExisting(dbUp) ==
  /\ phase = "down" /\ boots < MaxBoots
  /\ chainFile.state = "ok"
  /\ LET blocks == chainFile.blocks
     IN  FinishInit(blocks, IndexOf(blocks, Len(blocks)), "loaded", dbUp)
  /\ UNCHANGED <<now, chainFile, indexFile, savedChain, tampered>>

\* loadChain, chain.json does not exist: genesis block, saveChain.
BootstrapFresh(t, dbUp) ==
  /\ phase = "down" /\ boots < MaxBoots
  /\ chainFile.state = "absent"
  /\ t \in Clock
  /\ now' = t
  /\ LET g == createGenesisBlock(t)
         map == MapSet(EmptyMap, g.hash, 0)
     IN  /\ chainFile' = SavedChainFile("ok", chainFile, <<g>>)
         /\ indexFile' = SavedIndexFile("ok", indexFile, map)
         /\ savedChain' = <<g>>
         /\ FinishInit(<<g>>, map, "created", dbUp)
  /\ UNCHANGED tampered

\* The same when that saveChain throws (o1): the catch block of loadChain
\* runs, with a second genesis block created at t2, its hash added to the
\* index that still holds the first one, and saveChain once more (o2).
BootstrapFreshRetry(o1, o2, t1, t2, dbUp) ==
  /\ phase = "down" /\ boots < MaxBoots
  /\ chainFile.state = "absent"
  /\ SaveThrows(o1)
  /\ t1 \in Clock /\ t2 \in Clock /\ t1 <= t2
  /\ LET g1 == createGenesisBlock(t1)
         map1 == MapSet(EmptyMap, g1.hash, 0)
         file1 == SavedChainFile(o1, chainFile, <<g1>>)
         ifile1 == SavedIndexFile(o1, indexFile, map1)
         saved1 == SavedChainAfter(o1, savedChain, <<g1>>)
         g2 == createGenesisBlock(t2)
         map2 == MapSet(map1, g2.hash, 0)
     IN  /\ chainFile' = SavedChainFile(o2, file1, <<g2>>)
         /\ indexFile' = SavedIndexFile(o2, ifile1, map2)
         /\ savedChain' = SavedChainAfter(o2, saved1, <<g2>>)
         /\ now' = t2
         /\ IF SaveThrows(o2)
              THEN RejectInit
              ELSE FinishInit(<<g2>>, map2, "retried", dbUp)
  /\ UNCHANGED tampered

\* loadChain, chain.json exists and JSON.parse throws: the catch block
\* starts a fresh chain and saves it.
BootstrapCorrupt(o, t, dbUp) ==
  /\ phase = "down" /\ boots < MaxBoots
  /\ chainFile.state = "partial"
  /\ t \in Clock
  /\ now' = t
  /\ LET g == createGenesisBlock(t)
         map == MapSet(EmptyMap, g.hash, 0)
     IN  /\ chainFile' = SavedChainFile(o, chainFile, <<g>>)
         /\ indexFile' = SavedIndexFile(o, indexFile, map)
         /\ savedChain' = SavedChainAfter(o, savedChain, <<g>>)
         /\ IF SaveThrows(o)
              THEN RejectInit
              ELSE FinishInit(<<g>>, map, "reset", dbUp)
  /\ tampered' = FALSE

\* --------------------------------------------------------------- addRecord
RECURSIVE ProofOfWork(_)
\* ProofOfWork without the loop.
ProofOfWork_NoSearch(newBlock) == newBlock

\* while (!hash.startsWith('0')) { newBlock.nonce++; hash = calculateHash(newBlock) }
ProofOfWork(newBlock) ==
  IF StartsWithZero(calculateHash(newBlock)) THEN newBlock
  ELSE ProofOfWork([newBlock EXCEPT !.nonce = @ + 1])

\* NewBlock taking prevHash from the tail's prevHash instead of its hash.
NewBlock_TailPrevHash(lastBlock, type, data, t) ==
  [index |-> lastBlock.index + 1, timestamp |-> Date(t),
   data |-> << <<Key.type, type>> >> \o data,
   prevHash |-> lastBlock.prevHash, nonce |-> 0]

\* NewBlock reusing the tail's index.
NewBlock_TailIndex(lastBlock, type, data, t) ==
  [index |-> lastBlock.index, timestamp |-> Date(t),
   data |-> << <<Key.type, type>> >> \o data,
   prevHash |-> lastBlock.hash, nonce |-> 0]

\* const newBlock = {index, timestamp, data: {type, ...data}, prevHash, nonce: 0}
NewBlock(lastBlock, type, data, t) ==
  [index |-> lastBlock.index + 1, timestamp |-> Date(t),
   data |-> << <<Key.type, type>> >> \o data,
   prevHash |-> lastBlock.hash, nonce |-> 0]

\* FinalBlock keeping the hash computed before the proof-of-work loop.
FinalBlock_HashBeforeWork(newBlock) ==
  WithHash(ProofOfWork(newBlock), calculateHash(newBlock))

\* const finalBlock = {...newBlock, hash} after the proof-of-work loop.
FinalBlock(newBlock) ==
  LET mined == ProofOfWork(newBlock)
  IN  WithHash(mined, calculateHash(mined))

\* AfterCompute when the proof of work is awaited: the event loop is free.
AfterCompute_Awaited(c) == 0

\* Who holds the event loop after the first statements of addRecord (read
\* the tail, build the block, proof of work): still call c, since nothing
\* is awaited before chain.push.
AfterCompute(c) == c

\* Lines 876-901: read the tail, build newBlock, proof of work.  With an
\* empty chain lastBlock is undefined and lastBlock.index throws.
\* Invocations are numbered in the order they are made.
AddRecordCompute(c, req, t) ==
  /\ phase = "up" /\ thread = 0
  /\ calls[c].pc = "idle"
  /\ \A d \in CallIds : d < c => calls[d].pc # "idle"
  /\ t \in Clock
  /\ now' = t
  /\ IF chain = <<>>
       THEN /\ calls' = [calls EXCEPT ![c].pc = "rejected",
                                      ![c].pre = Snapshot(chain, chainIndex),
                                      ![c].post = Snapshot(chain, chainIndex)]
            /\ thread' = 0
       ELSE /\ calls' = [calls EXCEPT
                  ![c].pc = "push",
                  ![c].block = FinalBlock(NewBlock(chain[Len(chain)], req.type, req.data, t)),
                  ![c].pre = Snapshot(chain, chainIndex)]
            /\ thread' = AfterCompute(c)
  /\ UNCHANGED <<phase, boots, chain, chainIndex, chainFile, indexFile,
                 mirror, loadKind, chainValid, loadedChain, savedChain,
                 persistedAtLoad, crashWrite, tampered, answer, db, reqs>>

\* chainPush writing the new block over the tail.
chainPush_OverTail(blocks, block) == [blocks EXCEPT ![Len(blocks)] = block]

\* chain.push(finalBlock)
chainPush(blocks, block) == Append(blocks, block)

\* chainIndexSet left for a later turn of the event loop.
chainIndexSet_Deferred(map, block) == map

\* chainIndex.set(finalBlock.hash, finalBlock.index), in the same turn
\* as the push.
chainIndexSet(map, block) == MapSet(map, block.hash, block.index)

\* Lines 904-905: chain.push(finalBlock); chainIndex.set(hash, index).
AddRecordPush(c) ==
  /\ phase = "up" /\ thread \in {0, c}
  /\ calls[c].pc = "push"
  /\ chain' = chainPush(chain, calls[c].block)
  /\ chainIndex' = chainIndexSet(chainIndex, calls[c].block)
  /\ calls' = [calls EXCEPT ![c].pc = "save"]
  /\ thread' = c
  /\ UNCHANGED <<phase, boots, now, chainFile, indexFile, mirror, loadKind,
                 chainValid, loadedChain, savedChain, persistedAtLoad,
                 crashWrite, tampered, answer, db, reqs>>

\* Line 908: await saveChain().  saveChain runs to its end before the
\* await yields; when it throws, addRecord rejects with that error and
\* nothing else of addRecord runs.
AddRecordSave(c, o) ==
  /\ phase = "up" /\ thread = c
  /\ calls[c].pc = "save"
  /\ chainFile' = SavedChainFile(o, chainFile, chain)
  /\ indexFile' = SavedIndexFile(o, indexFile, chainIndex)
  /\ savedChain' = SavedChainAfter(o, savedChain, chain)
  /\ calls' = IF SaveThrows(o)
                THEN [calls EXCEPT ![c].pc = "rejected",
                                   ![c].post = Snapshot(chain, chainIndex)]
                ELSE [calls EXCEPT ![c].pc = "mirror"]
  /\ thread' = 0
  /\ UNCHANGED <<phase, boots, now, chain, chainIndex, mirror, loadKind,
                 chainValid, loadedChain, persistedAtLoad, crashWrite, tampered,
                 answer, db, reqs>>

\* AfterMirror when the error of the insert reaches the caller.
AfterMirror_Propagated(ok) == IF ok THEN "returned" ELSE "rejected"

\* How addRecord ends once the insert into the mirror has settled:
\* .catch(() => {}) swallows its error, line 925 returns finalBlock.
AfterMirror(ok) == "returned"

\* Lines 911-925: the insert into the mirror, its error swallowed, then
\* return finalBlock.  disk records chain.json as it is when the call
\* returns.
AddRecordMirror(c, ok) ==
  /\ phase = "up" /\ thread = 0
  /\ calls[c].pc = "mirror"
  /\ mirror' = MirrorCreate(mirror, calls[c].block, ok)
  /\ calls' = [calls EXCEPT ![c].pc = AfterMirror(ok),
                            ![c].post = Snapshot(chain, chainIndex),
                            ![c].disk = chainFile]
  /\ UNCHANGED <<phase, boots, now, chain, chainIndex, chainFile, indexFile,
                 thread, loadKind, chainValid, loadedChain, savedChain,
                 persistedAtLoad, crashWrite, tampered, answer, db, reqs>>

\* The insert of call c never settles (the database accepts the statement
\* and does not answer): the await of line 911 has no timeout, so nothing
\* of addRecord runs after it.
MirrorStall(c) ==
  /\ phase = "up" /\ thread = 0
  /\ calls[c].pc = "mirror"
  /\ calls' = [calls EXCEPT ![c].pc = "stalled"]
  /\ UNCHANGED <<phase, boots, now, chain, chainIndex, chainFile, indexFile,
                 mirror, thread, loadKind, chainValid, loadedChain, savedChain,
                 persistedAtLoad, crashWrite, tampered, answer, db, reqs>>

\* ----------------------------------------------------------- verification
\* The user ids and the claimed figures a verification is asked about.
Users == {1, 2}
ClaimedHours == {0, 1}
ClaimedTickets == {0, 1}

\* A route handler calls verifyUserStats (certificates.routes.ts): it reads
\* the chain array and nothing else.  len is the length of the chain the
\* answer was computed from.
VerifyUserStats(userId, claimedHours, claimedTickets) ==
  /\ phase = "up" /\ thread = 0
  /\ answer' = [given |-> TRUE, userId |-> userId,
                claimedHours |-> claimedHours, claimedTickets |-> claimedTickets,
                len |-> Len(chain),
                result |-> verifyUserStats(chain, userId, claimedHours, claimedTickets)]
  /\ UNCHANGED <<phase, boots, now, chain, chainIndex, chainFile, indexFile,
                 mirror, thread, calls, loadKind, chainValid, loadedChain,
                 savedChain, persistedAtLoad, crashWrite, tampered, db, reqs>>

\* ---------------------------------------------------------- route handlers
\* The handlers of tickets.routes.ts, responses.routes.ts and
\* certificates.routes.ts, for one ticket (id 1) created by user 1 and one
\* response (id 1) to it written by volunteer 2.  A handler runs when the
\* event loop is free.
Creator == 1
TicketId == 1
ResponseId == 1
CertificateId == 1

\* Request bodies: timeSpent of POST /responses, additionalTime of
\* PATCH /responses/:id, seconds of POST /responses/:id/log-time.
ResponseSeconds == {3600}
AdditionalTime == {3600}
LoggedSeconds == {1800}

\* await addRecord(type, data) of a handler, with the disk and the
\* database up: the whole of lines 876-925 of the ledger, which no other
\* append of this specification can interleave with before saveChain ends.
Appended(type, data) ==
  LET block == FinalBlock(NewBlock(chain[Len(chain)], type, data, now))
      pushed == chainPush(chain, block)
      indexed == chainIndexSet(chainIndex, block)
  IN  /\ chain # <<>>
      /\ chain' = pushed
      /\ chainIndex' = indexed
      /\ chainFile' = SavedChainFile("ok", chainFile, pushed)
      /\ indexFile' = SavedIndexFile("ok", indexFile, indexed)
      /\ savedChain' = SavedChainAfter("ok", savedChain, pushed)
      /\ mirror' = MirrorCreate(mirror, block, TRUE)
      /\ UNCHANGED <<phase, boots, now, thread, calls, loadKind, chainValid,
                     loadedChain, persistedAtLoad, crashWrite, tampered,
                     answer>>

\* What a handler that appends nothing leaves alone.
LedgerUntouched ==
  UNCHANGED <<phase, boots, now, chain, chainIndex, chainFile, indexFile,
              mirror, thread, calls, loadKind, chainValid, loadedChain,
              savedChain, persistedAtLoad, crashWrite, tampered, answer>>

\* POST /tickets: the row is created OPEN with no volunteer, then
\* addRecord(TICKET_CREATED, {ticketId, userId}).
CreateTicket ==
  /\ phase = "up" /\ thread = 0
  /\ ~db.ticket.exists
  /\ db' = [db EXCEPT !.ticket = [exists |-> TRUE, status |-> "OPEN",
                                  volunteerId |-> 0]]
  /\ Appended(BlockchainRecordType.TICKET_CREATED,
              << <<Key.ticketId, TicketId>>, <<Key.userId, Creator>> >>)
  /\ UNCHANGED reqs

\* POST /tickets/:id/accept by volunteer v: only an OPEN ticket.
AcceptTicket(v) ==
  /\ phase = "up" /\ thread = 0
  /\ db.ticket.exists /\ v # Creator
  /\ db.ticket.status = "OPEN"
  /\ db' = [db EXCEPT !.ticket.status = "IN_PROGRESS",
                      !.ticket.volunteerId = v]
  /\ LedgerUntouched
  /\ UNCHANGED reqs

\* POST /tickets/:id/release by the assigned volunteer v: back to OPEN,
\* volunteerId null.
ReleaseTicket(v) ==
  /\ phase = "up" /\ thread = 0
  /\ db.ticket.exists
  /\ db.ticket.volunteerId = v
  /\ db.ticket.status = "IN_PROGRESS"
  /\ db' = [db EXCEPT !.ticket.status = "OPEN", !.ticket.volunteerId = 0]
  /\ LedgerUntouched
  /\ UNCHANGED reqs

\* POST /tickets/:id/close by the creator: refused once CLOSED or RESOLVED.
CloseTicket ==
  /\ phase = "up" /\ thread = 0
  /\ db.ticket.exists
  /\ db.ticket.status \notin {"CLOSED", "RESOLVED"}
  /\ db' = [db EXCEPT !.ticket.status = "CLOSED"]
  /\ LedgerUntouched
  /\ UNCHANGED reqs

\* POST /responses by volunteer v with timeSpent secs: an OPEN ticket is
\* accepted on the way, an IN_PROGRESS one must not be another volunteer's;
\* then the row is created and addRecord(RESPONSE_SUBMITTED, ...).  The
\* model follows one response: none is created after the first.
CreateResponse(v, secs) ==
  /\ phase = "up" /\ thread = 0
  /\ db.ticket.exists
  /\ ~db.response.exists /\ ~db.response.deleted
  /\ db.ticket.status \in {"OPEN", "IN_PROGRESS"}
  /\ db.ticket.status = "IN_PROGRESS" =>
       ~(db.ticket.volunteerId # 0 /\ db.ticket.volunteerId # v)
  /\ db' = [db EXCEPT
       !.ticket.status = "IN_PROGRESS",
       !.ticket.volunteerId = IF db.ticket.status = "OPEN" THEN v ELSE @,
       !.response = [exists |-> TRUE, deleted |-> FALSE, timeSpent |-> secs]]
  /\ Appended(BlockchainRecordType.RESPONSE_SUBMITTED,
              << <<Key.responseId, ResponseId>>, <<Key.ticketId, TicketId>>,
                 <<Key.userId, v>>, <<Key.timeSpent, secs>> >>)
  /\ UNCHANGED reqs

\* PATCH /responses/:id by its author with additionalTime: refused on a
\* RESOLVED or CLOSED ticket; timeSpent grows, the ledger is not called.
UpdateResponse(additionalTime) ==
  /\ phase = "up" /\ thread = 0
  /\ db.response.exists
  /\ db.ticket.status \notin {"RESOLVED", "CLOSED"}
  /\ db.response.timeSpent + additionalTime <= MaxSeconds
  /\ db' = [db EXCEPT !.response.timeSpent = @ + additionalTime]
  /\ LedgerUntouched
  /\ UNCHANGED reqs

\* POST /responses/:id/log-time by its author v: timeSpent grows by seconds
\* and addRecord(TIME_LOGGED, {responseId, userId, timeSpent: seconds}).
LogTime(v, seconds) ==
  /\ phase = "up" /\ thread = 0
  /\ db.response.exists
  /\ db.response.timeSpent + seconds <= MaxSeconds
  /\ db' = [db EXCEPT !.response.timeSpent = @ + seconds]
  /\ Appended(BlockchainRecordType.TIME_LOGGED,
              << <<Key.responseId, ResponseId>>, <<Key.userId, v>>,
                 <<Key.timeSpent, seconds>> >>)
  /\ UNCHANGED reqs

\* DELETE /responses/:id by its author: refused on a RESOLVED ticket (no
\* response of the model is accepted); the row goes, the ledger is not
\* called.
DeleteResponse ==
  /\ phase = "up" /\ thread = 0
  /\ db.response.exists
  /\ db.ticket.status # "RESOLVED"
  /\ db' = [db EXCEPT !.response = [exists |-> FALSE, deleted |-> TRUE,
                                    timeSpent |-> 0]]
  /\ LedgerUntouched
  /\ UNCHANGED reqs

\* ticket.responses.reduce((acc, r) => acc + r.timeSpent, 0)
TotalTime(rows) == IF rows.response.exists THEN rows.response.timeSpent ELSE 0

\* POST /tickets/:id/resolve by the creator, up to its first await
\* returning: findUnique reads status, volunteerId and the responses; a
\* RESOLVED or CLOSED ticket is refused, otherwise totalTime is computed
\* from what was read.
ResolveRead(h) ==
  /\ phase = "up" /\ thread = 0
  /\ reqs[h].pc = "idle"
  /\ \A g \in Resolvers : g < h => reqs[g].pc # "idle"
  /\ db.ticket.exists
  /\ reqs' = [reqs EXCEPT ![h] =
       IF db.ticket.status \in {"RESOLVED", "CLOSED"}
         THEN [pc |-> "refused", volunteerId |-> 0, totalTime |-> 0]
         ELSE [pc |-> "read", volunteerId |-> db.ticket.volunteerId,
               totalTime |-> TotalTime(db)]]
  /\ LedgerUntouched
  /\ UNCHANGED db

\* The rest of the handler: ticket.update to RESOLVED, the counters of the
\* volunteer that was read, addRecord(TICKET_RESOLVED, {ticketId,
\* volunteerId, timeSpent: totalTime}).  Nothing is read again.
ResolveWrite(h) ==
  /\ phase = "up" /\ thread = 0
  /\ reqs[h].pc = "read"
  /\ db' = [db EXCEPT
       !.ticket.status = "RESOLVED",
       !.ticketsResolved = IF reqs[h].volunteerId # 0 THEN @ + 1 ELSE @]
  /\ Appended(BlockchainRecordType.TICKET_RESOLVED,
              << <<Key.ticketId, TicketId>>,
                 <<Key.volunteerId, reqs[h].volunteerId>>,
                 <<Key.timeSpent, reqs[h].totalTime>> >>)
  /\ reqs' = [reqs EXCEPT ![h].pc = "done"]

\* Seconds in one minute: the divisor of Math.floor(totalSeconds / 60).
SecondsPerMinute == 60

\* Minutes in one hour: the divisor of Math.floor(hoursSpent / 60).
MinutesPerHour == 60

\* POST /certificates/generate by volunteer v: the figures come from the
\* response rows of v on RESOLVED tickets; no activity is refused; the row
\* stores minutes; then addRecord(CERTIFICATE_ISSUED, ...).  The model
\* follows one certificate.
GenerateCertificate(v) ==
  LET counted == db.response.exists /\ db.ticket.status = "RESOLVED"
      totalSeconds == IF counted THEN db.response.timeSpent ELSE 0
      uniqueTickets == IF counted THEN 1 ELSE 0
  IN  /\ phase = "up" /\ thread = 0
      /\ ~db.certificate.exists
      /\ totalSeconds # 0
      /\ db' = [db EXCEPT !.certificate =
                  [exists |-> TRUE,
                   hoursSpent |-> totalSeconds \div SecondsPerMinute,
                   ticketsHelped |-> uniqueTickets]]
      /\ Appended(BlockchainRecordType.CERTIFICATE_ISSUED,
                  << <<Key.certificateId, CertificateId>>, <<Key.userId, v>>,
                     <<Key.metadata, 0>> >>)
      /\ UNCHANGED reqs

\* GET /certificates/verify/:code for the certificate of volunteer v:
\* verifyUserStats(userId, Math.floor(hoursSpent / 60), ticketsHelped).
VerifyCertificate(v) ==
  /\ db.certificate.exists
  /\ VerifyUserStats(v, db.certificate.hoursSpent \div MinutesPerHour,
                     db.certificate.ticketsHelped)

\* ------------------------------------------------------------ environment
\* The process dies (kill, power loss, process.exit): memory is lost, the
\* files stay as they are.
Die ==
  /\ phase' = "down"
  /\ chain' = <<>>
  /\ chainIndex' = EmptyMap
  /\ thread' = 0
  /\ loadKind' = "none"
  /\ chainValid' = TRUE
  /\ loadedChain' = <<>>
  /\ persistedAtLoad' = <<>>
  /\ answer' = NoAnswer
  /\ reqs' = [h \in Resolvers |->
               IF reqs[h].pc = "idle" THEN reqs[h] ELSE LostReq]
  /\ db' = db
  /\ calls' = [c \in CallIds |->
                IF calls[c].pc = "idle" THEN calls[c] ELSE LostCall]

\* A death between two turns of the event loop; one inside the synchronous
\* part of addRecord that is not inside saveChain leaves the same files.
Crash ==
  /\ phase = "up" /\ boots < MaxBoots /\ thread = 0
  /\ Die
  /\ crashWrite' = NoCrashWrite
  /\ UNCHANGED <<boots, now, chainFile, indexFile, mirror, savedChain, tampered>>

\* The process dies inside the saveChain of call c, at point p.
CrashInSave(c, p) ==
  /\ phase = "up" /\ boots < MaxBoots /\ thread = c
  /\ calls[c].pc = "save"
  /\ chainFile' = CrashedChainFile(p, chain)
  /\ indexFile' = CrashedIndexFile(p, indexFile)
  /\ savedChain' = IF p = "chain_truncated" THEN <<>> ELSE chain
  /\ crashWrite' = [stage |-> "crashed", pre |-> chainFile, post |-> Written(chain)]
  /\ Die
  /\ UNCHANGED <<boots, now, mirror, tampered>>

\* Somebody edits chain.json while the process is down: one field (data,
\* prevHash or hash) of one block after the genesis block gets another
\* value.
TamperValues == {0, 1, 2}

Tamper ==
  /\ phase = "down" /\ boots < MaxBoots
  /\ chainFile.state = "ok" /\ ~tampered
  /\ \E i \in 2..Len(chainFile.blocks) :
       LET block == chainFile.blocks[i]
           hashes == {Sentinel} \cup {chainFile.blocks[k].hash : k \in 1..Len(chainFile.blocks)}
                       \cup {[block.hash EXCEPT ![1] = (@ + 1) % HexBase]}
           edits ==
             {[block EXCEPT !.data[j][2] = v] : j \in DOMAIN block.data, v \in TamperValues}
               \cup {[block EXCEPT !.prevHash = h] : h \in hashes}
               \cup {[block EXCEPT !.hash = h] : h \in hashes}
       IN  \E edited \in edits \ {block} :
             chainFile' = [chainFile EXCEPT !.blocks[i] = edited]
  /\ tampered' = TRUE
  /\ UNCHANGED <<phase, boots, now, chain, chainIndex, indexFile, mirror, thread,
                 calls, loadKind, chainValid, loadedChain, savedChain,
                 persistedAtLoad, crashWrite, answer, db, reqs>>

\* Somebody edits the genesis block in chain.json while the process is
\* down: a value of its data or a digit of its hash.
TamperGenesis ==
  /\ phase = "down" /\ boots < MaxBoots
  /\ chainFile.state = "ok" /\ chainFile.blocks # <<>> /\ ~tampered
  /\ LET block == chainFile.blocks[1]
         edits ==
           {[block EXCEPT !.data[j][2] = v] : j \in DOMAIN block.data, v \in TamperValues}
             \cup {[block EXCEPT !.hash[1] = (@ + 1) % HexBase]}
     IN  \E edited \in edits \ {block} :
           chainFile' = [chainFile EXCEPT !.blocks[1] = edited]
  /\ tampered' = TRUE
  /\ UNCHANGED <<phase, boots, now, chain, chainIndex, indexFile, mirror, thread,
                 calls, loadKind, chainValid, loadedChain, savedChain,
                 persistedAtLoad, crashWrite, answer, db, reqs>>

\* chain.json is replaced, while the process is down, by a file that holds
\* the empty JSON array: it exists and JSON.parse accepts it.
EmptyArrayFile ==
  /\ phase = "down" /\ boots < MaxBoots
  /\ ~tampered
  /\ chainFile' = Written(<<>>)
  /\ tampered' = TRUE
  /\ UNCHANGED <<phase, boots, now, chain, chainIndex, indexFile, mirror, thread,
                 calls, loadKind, chainValid, loadedChain, savedChain,
                 persistedAtLoad, crashWrite, answer, db, reqs>>

\* The ledger with its files failing and the process dying; the mirror
\* is reachable and accepts every insert.
Next ==
  \/ LoadExisting(TRUE)
  \/ \E t \in 0..MaxClock : BootstrapFresh(t, TRUE)
  \/ \E o1, o2 \in SaveOutcomes, t1, t2 \in 0..MaxClock :
       BootstrapFreshRetry(o1, o2, t1, t2, TRUE)
  \/ \E o \in SaveOutcomes, t \in 0..MaxClock : BootstrapCorrupt(o, t, TRUE)
  \/ \E c \in CallIds, req \in Requests, t \in 0..MaxClock :
       AddRecordCompute(c, req, t)
  \/ \E c \in CallIds : AddRecordPush(c)
  \/ \E c \in CallIds, o \in SaveOutcomes : AddRecordSave(c, o)
  \/ \E c \in CallIds : AddRecordMirror(c, TRUE)
  \/ \E c \in CallIds, p \in CrashPoints : CrashInSave(c, p)
  \/ Crash

Spec == Init /\ [][Next]_vars

\* Valid chains built by successful addRecord calls, with chain.json open
\* to edits between two runs of the process.
NextTamper ==
  \/ LoadExisting(TRUE)
  \/ \E t \in 0..MaxClock : BootstrapFresh(t, TRUE)
  \/ \E c \in CallIds, req \in Requests, t \in 0..MaxClock :
       AddRecordCompute(c, req, t)
  \/ \E c \in CallIds : AddRecordPush(c)
  \/ \E c \in CallIds : AddRecordSave(c, "ok")
  \/ \E c \in CallIds : AddRecordMirror(c, TRUE)
  \/ Crash
  \/ Tamper

SpecTamper == Init /\ [][NextTamper]_vars

\* Successful saves with the relational database failing: an insert of
\* addRecord or the sync at startup may fail.
NextMirror ==
  \/ \E dbUp \in BOOLEAN : LoadExisting(dbUp)
  \/ \E t \in 0..MaxClock, dbUp \in BOOLEAN : BootstrapFresh(t, dbUp)
  \/ \E c \in CallIds, req \in Requests, t \in 0..MaxClock :
       AddRecordCompute(c, req, t)
  \/ \E c \in CallIds : AddRecordPush(c)
  \/ \E c \in CallIds : AddRecordSave(c, "ok")
  \/ \E c \in CallIds, ok \in BOOLEAN : AddRecordMirror(c, ok)
  \/ Crash

SpecMirror == Init /\ [][NextMirror]_vars

\* The calls of every route handler, one per tag, and a TIME_LOGGED call
\* that names user 2 as volunteerId only (no handler writes that today;
\* addRecord takes any data and the queries read data.volunteerId of every
\* block).
LedgerRequests ==
  Requests \cup
  { [type |-> BlockchainRecordType.TICKET_CREATED,
     data |-> << <<Key.ticketId, 1>>, <<Key.userId, 2>> >>],
    [type |-> BlockchainRecordType.RESPONSE_SUBMITTED,
     data |-> << <<Key.responseId, 1>>, <<Key.ticketId, 1>>, <<Key.userId, 2>>,
                 <<Key.timeSpent, 3600>> >>],
    [type |-> BlockchainRecordType.CERTIFICATE_ISSUED,
     data |-> << <<Key.certificateId, 1>>, <<Key.userId, 2>>, <<Key.metadata, 0>> >>],
    [type |-> BlockchainRecordType.TIME_LOGGED,
     data |-> << <<Key.responseId, 1>>, <<Key.userId, 1>>, <<Key.volunteerId, 2>>,
                 <<Key.timeSpent, 1800>> >>] }

\* The users whose work those calls record, whom a certificate is
\* verified for.
Volunteers == {2}

\* One process with everything succeeding, appends of every kind and
\* verifications in between; the clock stands still, time plays no part
\* in the queries.
NextVerify ==
  \/ BootstrapFresh(now, TRUE)
  \/ \E c \in CallIds, req \in LedgerRequests : AddRecordCompute(c, req, now)
  \/ \E c \in CallIds : AddRecordPush(c)
  \/ \E c \in CallIds : AddRecordSave(c, "ok")
  \/ \E c \in CallIds : AddRecordMirror(c, TRUE)
  \/ \E u \in Volunteers, h \in ClaimedHours, n \in ClaimedTickets :
       VerifyUserStats(u, h, n)

SpecVerify == Init /\ [][NextVerify]_vars

\* Successful saves, with the database reachable whenever the process
\* starts and the insert of an addRecord call free to fail.
NextSync ==
  \/ LoadExisting(TRUE)
  \/ \E t \in 0..MaxClock : BootstrapFresh(t, TRUE)
  \/ \E c \in CallIds, req \in Requests, t \in 0..MaxClock :
       AddRecordCompute(c, req, t)
  \/ \E c \in CallIds : AddRecordPush(c)
  \/ \E c \in CallIds : AddRecordSave(c, "ok")
  \/ \E c \in CallIds, ok \in BOOLEAN : AddRecordMirror(c, ok)
  \/ Crash

SpecSync == Init /\ [][NextSync]_vars

\* The same with inserts that may never settle.
NextMirrorStall ==
  \/ NextMirror
  \/ \E c \in CallIds : MirrorStall(c)

\* The event loop runs every continuation that is ready: the synchronous
\* part of addRecord goes on to the end of saveChain, and a call whose
\* insert has settled goes on to its return.  Nothing makes the database
\* answer or the process die.
EventLoopFairness ==
  \A c \in CallIds :
    /\ WF_vars(AddRecordPush(c))
    /\ WF_vars(AddRecordSave(c, "ok"))
    /\ WF_vars(\E ok \in BOOLEAN : AddRecordMirror(c, ok))

SpecMirrorStall == Init /\ [][NextMirrorStall]_vars /\ EventLoopFairness

\* The tags of the BlockchainRecordType enum.
KnownTypes ==
  {BlockchainRecordType[k] : k \in DOMAIN BlockchainRecordType}
    \ {BlockchainRecordType.GENESIS}

\* addRecord as its signature admits it at run time: the calls of the
\* route handlers and a call whose type is no member of the enum (the enum
\* type is erased by the compiler).
OpenRequests ==
  Requests \cup {[type |-> 6, data |-> << <<Key.userId, 2>> >>]}

\* Successful appends and verifications, with chain.json open to edits
\* between two runs of the process and addRecord open to any tag.
NextOpen ==
  \/ LoadExisting(TRUE)
  \/ \E t \in 0..MaxClock : BootstrapFresh(t, TRUE)
  \/ \E c \in CallIds, req \in OpenRequests, t \in 0..MaxClock :
       AddRecordCompute(c, req, t)
  \/ \E c \in CallIds : AddRecordPush(c)
  \/ \E c \in CallIds : AddRecordSave(c, "ok")
  \/ \E c \in CallIds : AddRecordMirror(c, TRUE)
  \/ \E u \in Volunteers, h \in ClaimedHours, n \in ClaimedTickets :
       VerifyUserStats(u, h, n)
  \/ Crash
  \/ Tamper
  \/ TamperGenesis
  \/ EmptyArrayFile

SpecOpen == Init /\ [][NextOpen]_vars

\* One process with the disk and the database up, serving the route
\* handlers; requests arrive in any order and two resolve requests may be
\* in flight together.  The clock stands still.
NextRoutes ==
  \/ BootstrapFresh(now, TRUE)
  \/ CreateTicket
  \/ \E v \in Volunteers : AcceptTicket(v)
  \/ \E v \in Volunteers : ReleaseTicket(v)
  \/ CloseTicket
  \/ \E v \in Volunteers, secs \in ResponseSeconds : CreateResponse(v, secs)
  \/ \E a \in AdditionalTime : UpdateResponse(a)
  \/ \E v \in Volunteers, secs \in LoggedSeconds : LogTime(v, secs)
  \/ DeleteResponse
  \/ \E h \in Resolvers : ResolveRead(h)
  \/ \E h \in Resolvers : ResolveWrite(h)
  \/ \E v \in Volunteers : GenerateCertificate(v)
  \/ \E v \in Volunteers : VerifyCertificate(v)

SpecRoutes == Init /\ [][NextRoutes]_vars

\* ----------------------------------------------------------------- claims
\* The calls whose saveChain succeeded / threw in this process.
Succeeded == {c \in CallIds : calls[c].pc \in {"mirror", "returned"}}
Failed == {c \in CallIds : calls[c].pc = "rejected"}
\* The calls that have executed chain.push in this process.
Pushed == {c \in CallIds : calls[c].pc \in {"save", "mirror", "returned", "rejected"}
                           /\ calls[c].block # NoBlock}

\* C1: in every state reached from a fresh ledger by addRecord calls, each
\* block after the first carries the hash of the block before it as its
\* prevHash.
C1_HashLink ==
  \A i \in 2..Len(chain) : chain[i].prevHash = chain[i - 1].hash

C1_Witness ==
  /\ phase = "up" /\ Len(chain) >= 3
  /\ Cardinality(Succeeded) >= 2

\* C2: block i of the chain has index i (0-based, dense), and after N
\* addRecord calls that all succeeded on a genesis-only ledger the chain
\* has N + 1 blocks.
C2_MonotonicAppend ==
  /\ \A i \in 1..Len(chain) : chain[i].index = i - 1
  /\ (phase = "up" /\ thread = 0 /\ Len(loadedChain) = 1 /\ Failed = {})
       => Len(chain) = Cardinality(Succeeded) + 1

C2_Witness ==
  /\ phase = "up" /\ thread = 0 /\ Len(loadedChain) = 1 /\ Failed = {}
  /\ Cardinality(Succeeded) = 2 /\ Len(chain) = 3

\* C3: addRecord calls in flight together never interleave between reading
\* the tail and the end of saveChain; K calls that were all saved add
\* exactly K blocks, no two blocks share a prevHash, the chain validates
\* and the calls' blocks are ordered by index in the order the calls ran.
C3_SerializedAppends ==
  /\ Cardinality({c \in CallIds : calls[c].pc \in {"push", "save"}}) <= 1
  /\ \A c \in CallIds : calls[c].pc \in {"push", "save"} => thread = c
  /\ (phase = "up" /\ Failed = {} /\ thread = 0)
       => Len(chain) = Len(loadedChain) + Cardinality(Succeeded)
  /\ \A i, j \in 1..Len(chain) : i # j => chain[i].prevHash # chain[j].prevHash
  /\ validateChain(chain)
  /\ \A c, d \in Pushed : c < d => calls[c].block.index < calls[d].block.index

C3_Witness ==
  /\ calls[1].pc = "mirror" /\ calls[2].pc = "mirror"
  /\ Len(chain) = Len(loadedChain) + 2

\* C4: when saveChain throws inside addRecord, the call rejects and the
\* length, the latest block and the hash index are what they were before
\* the call.
C4_FailedAppendRolledBack ==
  \A c \in CallIds : calls[c].pc = "rejected" => calls[c].post = calls[c].pre

\* C5: the stored hash of every block, the genesis block included, is
\* calculateHash of its stored fields, and validateChain() returns true.
C5_SelfHash ==
  /\ \A i \in 1..Len(chain) : chain[i].hash = calculateHash(chain[i])
  /\ phase = "up" => validateChain(chain)

C5_Witness ==
  /\ phase = "up" /\ Len(chain) >= 2
  /\ \E i \in 2..Len(chain) : chain[i].nonce > 0

\* C6: after one field (data, prevHash or hash) of one block after the
\* genesis block was changed in a valid stored chain, validateChain()
\* returns false on the chain loaded from it.
C6_TamperDetected ==
  (phase = "up" /\ tampered /\ loadKind = "loaded") => ~chainValid

C6_Witness ==
  phase = "up" /\ tampered /\ loadKind = "loaded" /\ ~chainValid

\* C7: when addRecord returns its block, chain.json holds the whole current
\* chain, that block included.
C7_PersistedAtReturn ==
  \A c \in CallIds : calls[c].pc = "returned" =>
    /\ calls[c].disk.state = "ok"
    /\ Len(calls[c].disk.blocks) = calls[c].post.len
    /\ calls[c].disk.blocks[calls[c].block.index + 1] = ToJSON(calls[c].block)

\* C8: a chain loaded from chain.json is field for field the chain that
\* was saved, and validates.
C8_RoundTripIdentical ==
  (phase = "up" /\ loadKind = "loaded") =>
    /\ loadedChain = persistedAtLoad
    /\ validateChain(loadedChain)

\* C9: after a death of the process inside saveChain, chain.json holds the
\* whole chain of before the append or the whole chain of after it, and
\* the next start loads it as a valid chain without resetting.
C9_CrashSafe ==
  /\ crashWrite.stage = "crashed" => chainFile \in {crashWrite.pre, crashWrite.post}
  /\ (crashWrite.stage = "restarted" /\ phase = "up")
       => (loadKind = "loaded" /\ chainValid)

\* C10: a start that found chain.json unparseable and began a new chain
\* shows its callers something that a first start never shows: what the
\* exported functions return after it differs from what they return after
\* every start without a chain.json.
FirstStartViews ==
  {Snapshot(<<createGenesisBlock(t)>>, MapSet(EmptyMap, createGenesisBlock(t).hash, 0)) :
     t \in 0..MaxClock}

C10_ResetSignalled ==
  (phase = "up" /\ loadKind = "reset") =>
    Snapshot(loadedChain, IndexOf(loadedChain, Len(loadedChain))) \notin FirstStartViews

\* The blocks an answer of verifyUserStats was computed from.
AnsweredLedger == SubSeq(chain, 1, answer.len)

\* C11: when validateChain returned false at startup the engine holds an
\* integrity-compromised flag and verifyUserStats consults it: an answer
\* given by such a process is not the plain figure computed from the
\* blocks alone, as a process whose chain validated would give it.
C11_IntegrityFlagChecked ==
  (phase = "up" /\ answer.given /\ ~chainValid)
    => answer.result # verifyUserStats(AnsweredLedger, answer.userId,
                                       answer.claimedHours, answer.claimedTickets)

\* C12: an addRecord call whose type is no member of the enum is rejected
\* before anything is changed: it never gets as far as chain.push, and
\* what the caller reads after it is what it read before.
C12_UnknownTagRejected ==
  \A c \in CallIds :
    (calls[c].block # NoBlock /\ Prop(calls[c].block.data, Key.type) \notin KnownTypes)
      => /\ calls[c].pc = "rejected"
         /\ calls[c].post = calls[c].pre

\* The calls whose block has no row in the mirror.
Unmirrored ==
  {c \in CallIds : ~(\E r \in mirror : r.index = calls[c].block.index)}

\* C13: a failing insert into the mirror does not fail the append: no call
\* whose saveChain succeeded is rejected, and a call that has returned,
\* mirrored or not, leaves its block in the chain at its index and in
\* chain.json as written by its saveChain.
C13_MirrorFailureNonFatal ==
  \A c \in CallIds :
    /\ calls[c].pc # "rejected"
    /\ calls[c].pc = "returned" =>
         /\ calls[c].block.index < Len(chain)
         /\ chain[calls[c].block.index + 1] = calls[c].block
         /\ calls[c].post.len > calls[c].block.index
         /\ calls[c].disk.state = "ok"
         /\ calls[c].block.index < Len(calls[c].disk.blocks)
         /\ calls[c].disk.blocks[calls[c].block.index + 1] = ToJSON(calls[c].block)

C13_Witness ==
  \E c \in Unmirrored :
    /\ calls[c].pc = "returned"
    /\ chain[Len(chain)] = calls[c].block

\* The positions of the TICKET_RESOLVED blocks of a ledger that name the
\* user as volunteer.
ResolvedBy(blocks, userId) ==
  {i \in 1..Len(blocks) :
     /\ Prop(blocks[i].data, Key.type) = BlockchainRecordType.TICKET_RESOLVED
     /\ Prop(blocks[i].data, Key.volunteerId) = userId}

\* C14: verifyUserStats(u, h, t) answers with actualHours the whole hours
\* in calculateUserTime(u), with actualTickets the number of
\* TICKET_RESOLVED blocks whose volunteerId is u, and with valid exactly
\* when actualHours >= h and actualTickets >= t: claiming less than the
\* ledger shows is valid, claiming more is not.
C14_AtLeastSemantics ==
  answer.given =>
    LET seconds == calculateUserTime(AnsweredLedger, answer.userId)
        hours == answer.result.actualHours
        tickets == answer.result.actualTickets
    IN  /\ hours * SecondsPerHour <= seconds
        /\ seconds < (hours + 1) * SecondsPerHour
        /\ tickets = Cardinality(ResolvedBy(AnsweredLedger, answer.userId))
        /\ answer.result.valid <=>
             (hours >= answer.claimedHours /\ tickets >= answer.claimedTickets)

C14_Witness ==
  /\ answer.given /\ answer.result.valid
  /\ answer.result.actualHours > answer.claimedHours
  /\ answer.result.actualTickets = 1 /\ answer.claimedTickets = 1

\* The tags whose timeSpent counts as time of the user.
TimeTypes ==
  {BlockchainRecordType.RESPONSE_SUBMITTED, BlockchainRecordType.TIME_LOGGED}

\* What the block at the tail adds to the time of a user: its timeSpent
\* when it is a RESPONSE_SUBMITTED or TIME_LOGGED block of that user,
\* nothing otherwise.
Credit(block, userId) ==
  IF /\ Prop(block.data, Key.type) \in TimeTypes
     /\ Prop(block.data, Key.userId) = userId
    THEN TimeSpentOrZero(block)
    ELSE 0

\* C15: appending a block changes calculateUserTime(u) by the block's
\* timeSpent when the block is a RESPONSE_SUBMITTED or TIME_LOGGED block
\* whose userId is u, and leaves it as it was for every other block
\* (TICKET_CREATED, CERTIFICATE_ISSUED, TICKET_RESOLVED even with a
\* timeSpent and u as volunteer).
C15_OnlyTimeEventsCount ==
  [][(phase = "up" /\ Len(chain') = Len(chain) + 1) =>
       \A u \in Users :
         calculateUserTime(chain', u) =
           calculateUserTime(chain, u) + Credit(chain'[Len(chain')], u)]_vars

C15_Witness ==
  /\ phase = "up" /\ Len(chain) = 3
  /\ Prop(chain[2].data, Key.type) = BlockchainRecordType.TIME_LOGGED
  /\ Prop(chain[2].data, Key.userId) = 2
  /\ Prop(chain[3].data, Key.type) = BlockchainRecordType.TICKET_RESOLVED
  /\ Prop(chain[3].data, Key.volunteerId) = 2
  /\ TimeSpentOrZero(chain[3]) > 0
  /\ calculateUserTime(chain, 2) = TimeSpentOrZero(chain[2])

\* The RESPONSE_SUBMITTED and TIME_LOGGED blocks among some blocks.
TimeRecords(blocks) ==
  SelectSeq(blocks, LAMBDA block : Prop(block.data, Key.type) \in TimeTypes)

\* C20 as stated: calculateUserTime(u) is the sum of timeSpent over the
\* RESPONSE_SUBMITTED and TIME_LOGGED blocks that getRecordsForUser(u)
\* returns, those that name u only as volunteer included.
C20_FoldOverGetForUser ==
  \A u \in Users :
    calculateUserTime(chain, u) = Reduce(TimeRecords(getRecordsForUser(chain, u)), 0)

\* C20 amended: calculateUserTime(u) is the sum of timeSpent over the
\* RESPONSE_SUBMITTED and TIME_LOGGED blocks that getRecordsForUser(u)
\* returns and whose userId is u; a block that names u only as volunteer
\* adds nothing.
C20_FoldOverOwnRecords ==
  \A u \in Users :
    calculateUserTime(chain, u) =
      Reduce(SelectSeq(TimeRecords(getRecordsForUser(chain, u)),
                       LAMBDA block : Prop(block.data, Key.userId) = u), 0)

C20_Witness ==
  /\ phase = "up" /\ thread = 0
  /\ \E i, j \in 1..Len(chain) :
       /\ Prop(chain[i].data, Key.type) \in TimeTypes
       /\ Prop(chain[i].data, Key.volunteerId) = 2
       /\ Prop(chain[i].data, Key.userId) # 2
       /\ Prop(chain[j].data, Key.type) \in TimeTypes
       /\ Prop(chain[j].data, Key.userId) = 2
  /\ calculateUserTime(chain, 2) > 0
  /\ Len(getRecordsForUser(chain, 2)) = 2

\* C16: once initBlockchain has resolved the chain is never empty,
\* whatever chain.json held at startup, and getLatestBlock() is the block
\* at position getChainLength() - 1.
C16_NeverEmpty ==
  phase = "up" =>
    /\ getChainLength(chain) >= 1
    /\ getLatestBlock(chain) = chain[getChainLength(chain)]

\* C18: validateChain() returns false when the hash stored in the genesis
\* block is not the hash recomputed from its index, timestamp, data,
\* prevHash and nonce.
C18_GenesisSelfHash ==
  (phase = "up" /\ chain # <<>> /\ chain[1].hash # calculateHash(chain[1]))
    => (~chainValid /\ ~validateChain(chain))

\* s is a prefix of t.
IsPrefix(s, t) == Len(s) <= Len(t) /\ SubSeq(t, 1, Len(s)) = s

\* C17: while the process is up the chain only grows at its end: whatever
\* happens (an append that succeeds, an append whose save fails), the
\* chain before the step is a prefix of the chain after it.
C17_AppendOnly ==
  [][(phase = "up" /\ phase' = "up") => IsPrefix(chain, chain')]_vars

C17_Witness ==
  /\ phase = "up" /\ Len(chain) = 3
  /\ Failed # {} /\ Succeeded # {}

\* C19: an addRecord call whose saveChain has succeeded returns in the end
\* (or the process dies), also when the insert into the mirror never
\* settles.
C19_MirrorCannotStall ==
  \A c \in CallIds :
    (calls[c].pc \in {"mirror", "stalled"}) ~> (calls[c].pc \in {"returned", "lost"})

\* C21: a query runs in a turn of its own, when no addRecord call holds
\* the event loop.  At every such moment each call has either not touched
\* the chain or has pushed its block complete: every block of the chain
\* carries the hash of its final content (with the proof of work done for
\* appended blocks) and is found under that hash by getBlockByHash.
C21_AtomicPublication ==
  (phase = "up" /\ thread = 0) =>
    /\ \A c \in CallIds : calls[c].pc \notin {"push", "save"}
    /\ \A c \in Pushed : getBlockByIndex(chain, calls[c].block.index) = calls[c].block
    /\ \A i \in 1..Len(chain) :
         /\ chain[i].hash = calculateHash(chain[i])
         /\ (i > 1 => StartsWithZero(chain[i].hash))
         /\ getBlockByHash(chain, chainIndex, chain[i].hash) = chain[i]

C21_Witness ==
  /\ phase = "up" /\ thread = 0
  /\ \E c \in CallIds :
       /\ calls[c].pc = "mirror"
       /\ getLatestBlock(chain) = calls[c].block
       /\ getBlockByHash(chain, chainIndex, calls[c].block.hash) = calls[c].block
       /\ getChainLength(chain) = calls[c].pre.len + 1

\* C22: once initBlockchain has resolved, and after any appends,
\* getBlockByHash(h) returns a block exactly when the chain holds a block
\* with hash h, and then that block: every block is found under its own
\* hash, and no key of the index leads to a block with another hash.
C22_HashIndexConsistent ==
  (phase = "up" /\ thread = 0) =>
    /\ \A i \in 1..Len(chain) :
         getBlockByHash(chain, chainIndex, chain[i].hash) = chain[i]
    /\ \A h \in DOMAIN chainIndex :
         getBlockByHash(chain, chainIndex, h) # NoBlock
           => getBlockByHash(chain, chainIndex, h).hash = h

\* The positions of the chain whose block carries the GENESIS tag.
GenesisPositions ==
  {i \in 1..Len(chain) : Prop(chain[i].data, Key.type) = BlockchainRecordType.GENESIS}

\* The calls of this process that have run saveChain.
Saving == {c \in CallIds : calls[c].pc \in {"mirror", "returned", "rejected"}}

\* C23: a start that finds no chain.json leaves a chain of one block, the
\* genesis block (index 0, prevHash '0', nonce 0, type GENESIS), and
\* chain.json holds that chain when initBlockchain resolves (until an
\* addRecord call saves again); in every state of a running process
\* exactly one block has the type GENESIS, the block at position 0.
C23_FreshBootstrap ==
  /\ (phase = "up" /\ loadKind \in {"created", "retried"}) =>
       /\ Len(loadedChain) = 1
       /\ loadedChain[1].index = 0
       /\ loadedChain[1].prevHash = Sentinel
       /\ loadedChain[1].nonce = 0
       /\ Prop(loadedChain[1].data, Key.type) = BlockchainRecordType.GENESIS
       /\ (Saving = {} => chainFile = Written(loadedChain))
  /\ phase = "up" => GenesisPositions = {1}

C23_Witness ==
  /\ phase = "up" /\ loadKind = "created"
  /\ Saving # {} /\ Len(chain) > 1
  /\ chain[1] = loadedChain[1]

\* The block of call c as the proof of work tries it with nonce n.
Candidate(c, n) ==
  [index |-> calls[c].block.index, timestamp |-> calls[c].block.timestamp,
   data |-> calls[c].block.data, prevHash |-> calls[c].block.prevHash,
   nonce |-> n]

\* The calls that have built their block.
Built == {c \in CallIds : calls[c].block # NoBlock}

\* C24: the block addRecord builds has a hash that starts with '0', the
\* hash of the block with its nonce; no smaller nonce from 0 on gives such
\* a hash; and index, timestamp, data and prevHash are those the call set
\* before the search (tail index + 1, new Date(), {type, ...data}, tail
\* hash).
C24_ProofOfWork ==
  \A c \in Built :
    /\ StartsWithZero(calls[c].block.hash)
    /\ calls[c].block.hash = calculateHash(Candidate(c, calls[c].block.nonce))
    /\ \A n \in 0..(calls[c].block.nonce - 1) :
         ~StartsWithZero(calculateHash(Candidate(c, n)))
    /\ calls[c].block.index = calls[c].pre.len
    /\ calls[c].block.prevHash = calls[c].pre.latest
    /\ \E req \in Requests, t \in 0..MaxClock :
         /\ calls[c].block.data = << <<Key.type, req.type>> >> \o req.data
         /\ calls[c].block.timestamp = Date(t)

C24_Witness ==
  \E c \in Built :
    /\ calls[c].pc = "returned"
    /\ calls[c].block.nonce > 1
    /\ chain[calls[c].block.index + 1] = calls[c].block

\* The same key-to-value mapping with its properties inserted in every
\* other order.
Reordered(data) ==
  {[i \in 1..Len(data) |-> data[p[i]]] : p \in Permutations(1..Len(data))}

\* C25: calculateHash does not depend on the order in which the
\* properties of data were inserted: a block and the same block with its
\* data reordered (equal index, timestamp, prevHash and nonce) have the
\* same hash.
C25_CanonicalHashing ==
  \A c \in Built :
    \A d \in Reordered(calls[c].block.data) :
      calculateHash([Candidate(c, calls[c].block.nonce) EXCEPT !.data = d])
        = calculateHash(Candidate(c, calls[c].block.nonce))

\* C26: the block of a call that was rejected because saveChain threw is
\* not in chain.json once a later call has saved, and no block has its
\* hash as prevHash.
C26_FailedAppendNeverDurable ==
  \A c \in Failed \cap Built :
    (\E d \in Succeeded : d > c) =>
      /\ chainFile.state = "ok" =>
           \A i \in 1..Len(chainFile.blocks) :
             chainFile.blocks[i] # ToJSON(calls[c].block)
      /\ \A i \in 1..Len(chain) : chain[i].prevHash # calls[c].block.hash

\* No addRecord call has been made to this process: the mirror is as
\* initBlockchain left it.
JustStarted ==
  phase = "up" /\ \A c \in CallIds : calls[c].pc \in {"idle", "lost"}

\* C27: when initBlockchain has resolved with the database reachable,
\* every block of the chain has a row in the mirror with its index and its
\* hash, whichever inserts of earlier addRecord calls failed.
C27_MirrorCompleteAfterSync ==
  JustStarted => \A i \in 1..Len(chain) : Row(chain[i]) \in mirror

\* C28: appending blocks (whose timeSpent is absent or not negative) never
\* takes a valid verification back: over every step of a running process
\* actualHours and actualTickets of every user do not decrease, and a
\* claim that was valid before the step is valid after it.
C28_VerificationMonotone ==
  [][(phase = "up" /\ phase' = "up" /\ chain' # chain) =>
       \A u \in Users, h \in ClaimedHours, n \in ClaimedTickets :
         LET before == verifyUserStats(chain, u, h, n)
             after == verifyUserStats(chain', u, h, n)
         IN  /\ after.actualHours >= before.actualHours
             /\ after.actualTickets >= before.actualTickets
             /\ before.valid => after.valid]_vars

C28_Witness ==
  /\ answer.given /\ answer.result.valid
  /\ answer.claimedHours = 1 /\ answer.result.actualHours = 1
  /\ Len(chain) > answer.len
  /\ verifyUserStats(chain, answer.userId, answer.claimedHours,
                     answer.claimedTickets).valid

\* The TICKET_RESOLVED records of the ticket on the chain.
Resolutions ==
  SelectSeq(chain, LAMBDA block :
    /\ Prop(block.data, Key.type) = BlockchainRecordType.TICKET_RESOLVED
    /\ Prop(block.data, Key.ticketId) = TicketId)

\* C29: whatever the interleaving of the resolve and close requests for one
\* ticket, the chain holds at most one TICKET_RESOLVED record for it and
\* the ticketsResolved counter of its volunteer was incremented at most
\* once.
C29_OneResolutionPerTicket ==
  /\ Len(Resolutions) <= 1
  /\ db.ticketsResolved <= 1

\* C30: a certificate produced by POST /certificates/generate is reported
\* valid by GET /certificates/verify/:code, whatever ticket and response
\* operations came before.
C30_CertificatesVerify ==
  (db.certificate.exists /\ answer.given) => answer.result.valid

====
